---- MODULE Spec2Model ----
(***************************************************************************)
(* The three schema generators of ccdi-dcc-graphql:                        *)
(*   data-model-schema-graphql.py      ("yaml":     drop-on-collision)     *)
(*   data-model-schema-graphql-mdf.py  ("mdf":      suffix-counter)        *)
(*   memgraph-schema-graphql.py        ("memgraph": single pass)           *)
(* Identifiers (node names, relationship labels, property names, field     *)
(* names) are Python strings; they are modelled as sequences of one-       *)
(* character strings so that endswith, slicing, concatenation, split,      *)
(* lower/upper and comparison do what the Python operations do.            *)
(* A run starts in the script's main with a command line, loads the input, *)
(* generates the schema and ends with an exit status; what the run prints  *)
(* is kept per stream.                                                     *)
(***************************************************************************)
EXTENDS Integers, Sequences, FiniteSets, TLC

VARIABLES script, nodes, edges, pc, relationship_map, order, output_lines,
          word, plural, singular,
          argv, stdout, stderr, exit_code,
          prop_name, prop_def, field_type

\* The command line of a run, its two output streams and its exit status
cli == <<argv, stdout, stderr, exit_code>>

\* One call of determine_graphql_type: its arguments and its result
typing == <<prop_name, prop_def, field_type>>

vars == <<script, nodes, edges, pc, relationship_map, order, output_lines,
          word, plural, singular, cli, typing>>

(***************************************************************************)
(* Characters and strings                                                  *)
(***************************************************************************)

\* The characters in use, in code point order ('-' < digits < 'A'..'Z' < '_' < 'a'..'z').
Ascii ==
  <<"-", "0", "1", "2", "3", "4", "5", "6", "7", "8", "9",
    "A", "B", "C", "D", "E", "F", "G", "H", "I", "J", "K", "L", "M",
    "N", "O", "P", "Q", "R", "S", "T", "U", "V", "W", "X", "Y", "Z",
    "_",
    "a", "b", "c", "d", "e", "f", "g", "h", "i", "j", "k", "l", "m",
    "n", "o", "p", "q", "r", "s", "t", "u", "v", "w", "x", "y", "z">>

Digits == <<"0", "1", "2", "3", "4", "5", "6", "7", "8", "9">>

LowerCase ==
  <<"a", "b", "c", "d", "e", "f", "g", "h", "i", "j", "k", "l", "m",
    "n", "o", "p", "q", "r", "s", "t", "u", "v", "w", "x", "y", "z">>

UpperCase ==
  <<"A", "B", "C", "D", "E", "F", "G", "H", "I", "J", "K", "L", "M",
    "N", "O", "P", "Q", "R", "S", "T", "U", "V", "W", "X", "Y", "Z">>

Range(s) == {s[i] : i \in DOMAIN s}

\* ord(ch): the position of ch in code point order
Ord(ch) == CHOOSE i \in DOMAIN Ascii : Ascii[i] = ch

\* ch.isalnum()
IsAlnum(ch) == ch \in Range(Digits) \cup Range(LowerCase) \cup Range(UpperCase)

\* ch.upper() and ch.lower()
UpperChar(ch) ==
  IF ch \in Range(LowerCase)
  THEN UpperCase[CHOOSE i \in DOMAIN LowerCase : LowerCase[i] = ch]
  ELSE ch

LowerChar(ch) ==
  IF ch \in Range(UpperCase)
  THEN LowerCase[CHOOSE i \in DOMAIN UpperCase : UpperCase[i] = ch]
  ELSE ch

\* s.upper() and s.lower()
Upper(s) == [i \in DOMAIN s |-> UpperChar(s[i])]

Lower(s) == [i \in DOMAIN s |-> LowerChar(s[i])]

\* s.endswith(suffix)
EndsWith(s, suffix) ==
  /\ Len(s) >= Len(suffix)
  /\ SubSeq(s, Len(s) - Len(suffix) + 1, Len(s)) = suffix

\* s[:-n]
DropLast(s, n) == IF Len(s) <= n THEN <<>> ELSE SubSeq(s, 1, Len(s) - n)

\* a < b for Python strings: lexicographic on code points
RECURSIVE StrLess(_, _)
StrLess(a, b) ==
  IF b = <<>> THEN FALSE
  ELSE IF a = <<>> THEN TRUE
  ELSE IF a[1] # b[1] THEN Ord(a[1]) < Ord(b[1])
  ELSE StrLess(Tail(a), Tail(b))

\* str(n) for n >= 0
RECURSIVE Str(_)
Str(n) == IF n < 10 THEN <<Digits[n + 1]>> ELSE Str(n \div 10) \o <<Digits[(n % 10) + 1]>>

\* s.split("_")[-1]: the segment after the last underscore (all of s when it has none)
RECURSIVE LastSegment(_)
LastSegment(s) ==
  IF s = <<>> THEN <<>>
  ELSE IF s[Len(s)] = "_" THEN <<>>
  ELSE LastSegment(DropLast(s, 1)) \o <<s[Len(s)]>>

DirOut == <<"O", "U", "T">>

DirIn == <<"I", "N">>

(***************************************************************************)
(* data-model-schema-graphql.py                                            *)
(***************************************************************************)

\* relationship_map.get(node_name, [])
MapGet(map, node_name) == IF node_name \in DOMAIN map THEN map[node_name] ELSE <<>>

\* One end of a relationship: append the OUT fact to the source's list and the
\* IN fact to the destination's list.
AddEnd(map, rel_name, src_node, dst_node) ==
  LET m1 == [n \in DOMAIN map \cup {src_node} |->
               IF n = src_node
               THEN Append(MapGet(map, n), <<rel_name, dst_node, DirOut>>)
               ELSE map[n]]
  IN [n \in DOMAIN m1 \cup {dst_node} |->
        IF n = dst_node
        THEN Append(MapGet(m1, n), <<rel_name, src_node, DirIn>>)
        ELSE m1[n]]

\* A relationship definition rel_def under its name: is_none says the
\* definition is null, keys are the keys of the dict, ends_none says the value
\* of Ends is null, Ends is the list of Src/Dst pairs otherwise.
RelDef(label, is_none, keys, ends_none, ends) ==
  [label |-> label, is_none |-> is_none, keys |-> keys, ends_none |-> ends_none,
   Ends |-> ends]

\* "for end in ends": one end at a time, in list order
RECURSIVE AddEnds(_, _, _, _)
AddEnds(map, rel_name, ends, k) ==
  IF k > Len(ends) THEN map
  ELSE AddEnds(AddEnd(map, rel_name, ends[k].Src, ends[k].Dst), rel_name, ends, k + 1)

\* build_relationship_map: the relationships in document order.  A definition
\* that is falsy or has no Ends key is passed over; iterating an Ends that is
\* null raises TypeError, which ends the function without a result.
RECURSIVE BuildFrom(_, _, _)
BuildFrom(relationships, i, map) ==
  IF i > Len(relationships) THEN [raised |-> FALSE, map |-> map]
  ELSE LET rel_def == relationships[i]
       IN IF rel_def.is_none \/ rel_def.keys = {} \/ "Ends" \notin rel_def.keys
            THEN BuildFrom(relationships, i + 1, map)
          ELSE IF rel_def.ends_none THEN [raised |-> TRUE, map |-> map]
          ELSE BuildFrom(relationships, i + 1,
                         AddEnds(map, rel_def.label, rel_def.Ends, 1))

build_relationship_map(relationships) == BuildFrom(relationships, 1, <<>>)

\* rel_key = f"{rel_type}_{target_node}_{direction}"
RelKey(rel_type, target_node, direction) ==
  rel_type \o <<"_">> \o target_node \o <<"_">> \o direction

\* The inner pluralisation: trailing y -> ies, trailing s kept, otherwise append s
Pluralize(target_node) ==
  IF EndsWith(target_node, <<"y">>) THEN DropLast(target_node, 1) \o <<"i", "e", "s">>
  ELSE IF EndsWith(target_node, <<"s">>) THEN target_node
  ELSE target_node \o <<"s">>

\* Mutant: self-relationships are pluralised like any other target.
FieldNamePluralizeSelf(target_node, node_name) ==
  IF ~EndsWith(target_node, <<"s">>) THEN Pluralize(target_node) ELSE target_node

\* field_name of a fact of node_name with target target_node
FieldName(target_node, node_name) ==
  IF ~EndsWith(target_node, <<"s">>) /\ target_node # node_name
  THEN Pluralize(target_node)
  ELSE target_node

\* Mutant: the IN pass names the field after the current node.
InFieldNameFromNode(target_node, node_name) == Pluralize(node_name)

\* field_name in the second (IN) pass
InFieldName(target_node, node_name) == FieldName(target_node, node_name)

\* A relationship line "  {field_name}: [{target}!]! @relationship(type: "{rel_type}",
\* direction: {direction})" is kept as its interpolated parts; fact is the index of
\* the fact the line was written for (history, not part of the text).
RelLine(field_name, target, rel_type, direction, fact) ==
  [field_name |-> field_name, target |-> target, rel_type |-> rel_type,
   direction |-> direction, fact |-> fact]

\* First pass of generate_node_type: the OUT facts, in list order
RECURSIVE OutPass(_, _, _, _)
OutPass(node_name, rels, i, st) ==
  IF i > Len(rels) THEN st
  ELSE
    LET rel_type == rels[i][1]
        target_node == rels[i][2]
        direction == rels[i][3]
        rel_key == RelKey(rel_type, target_node, direction)
        field_name == FieldName(target_node, node_name)
    IN IF direction # DirOut THEN OutPass(node_name, rels, i + 1, st)
       ELSE IF rel_key \in st.added_relationships THEN OutPass(node_name, rels, i + 1, st)
       ELSE OutPass(node_name, rels, i + 1,
              [added_relationships |-> st.added_relationships \cup {rel_key},
               added_field_names |-> st.added_field_names \cup {field_name},
               lines |-> Append(st.lines,
                           RelLine(field_name, target_node, rel_type, direction, i))])

\* Second pass of generate_node_type: the IN facts, skipped when the name is taken
RECURSIVE InPass(_, _, _, _)
InPass(node_name, rels, i, st) ==
  IF i > Len(rels) THEN st
  ELSE
    LET rel_type == rels[i][1]
        target_node == rels[i][2]
        direction == rels[i][3]
        rel_key == RelKey(rel_type, target_node, direction)
        field_name == InFieldName(target_node, node_name)
    IN IF direction # DirIn THEN InPass(node_name, rels, i + 1, st)
       ELSE IF rel_key \in st.added_relationships THEN InPass(node_name, rels, i + 1, st)
       ELSE IF field_name \in st.added_field_names
         THEN InPass(node_name, rels, i + 1,
                [st EXCEPT !.added_relationships = @ \cup {rel_key}])
       ELSE InPass(node_name, rels, i + 1,
              [added_relationships |-> st.added_relationships \cup {rel_key},
               added_field_names |-> st.added_field_names \cup {field_name},
               lines |-> Append(st.lines,
                           RelLine(field_name, target_node, rel_type, direction, i))])

\* The relationship lines of generate_node_type
NodeRelLines(node_name, map) ==
  LET node_relationships == MapGet(map, node_name)
      st0 == [added_relationships |-> {}, added_field_names |-> {}, lines |-> <<>>]
      st1 == OutPass(node_name, node_relationships, 1, st0)
  IN InPass(node_name, node_relationships, 1, st1).lines

\* "pattern in prop_lower": pattern occurs in s as a substring
Contains(s, pattern) ==
  \E i \in 0..(Len(s) - Len(pattern)) : SubSeq(s, i + 1, i + Len(pattern)) = pattern

\* type_mapping of determine_graphql_type, as (key, GraphQL type) pairs
type_mapping ==
  <<<<<<"s", "t", "r", "i", "n", "g">>, "String">>,
    <<<<"i", "n", "t", "e", "g", "e", "r">>, "Int">>,
    <<<<"i", "n", "t">>, "Int">>,
    <<<<"f", "l", "o", "a", "t">>, "Float">>,
    <<<<"n", "u", "m", "b", "e", "r">>, "Float">>,
    <<<<"b", "o", "o", "l", "e", "a", "n">>, "Boolean">>,
    <<<<"d", "a", "t", "e">>, "String">>,
    <<<<"d", "a", "t", "e", "t", "i", "m", "e">>, "String">>>>

\* type_mapping.get(yaml_type, 'String')
TypeMappingGet(yaml_type) ==
  IF \E i \in DOMAIN type_mapping : type_mapping[i][1] = yaml_type
  THEN type_mapping[CHOOSE i \in DOMAIN type_mapping : type_mapping[i][1] = yaml_type][2]
  ELSE "String"

numeric_patterns ==
  <<<<"a", "g", "e", "_", "a", "t", "_">>,
    <<"n", "u", "m", "b", "e", "r", "_", "o", "f", "_">>,
    <<"_", "c", "o", "u", "n", "t">>,
    <<"_", "s", "i", "z", "e">>,
    <<"_", "l", "e", "n", "g", "t", "h">>,
    <<"c", "o", "v", "e", "r", "a", "g", "e">>,
    <<"a", "v", "g", "_", "r", "e", "a", "d", "_", "l", "e", "n", "g", "t", "h">>,
    <<"n", "u", "m", "b", "e", "r", "_", "o", "f", "_", "b", "p">>,
    <<"n", "u", "m", "b", "e", "r", "_", "o", "f", "_", "r", "e", "a", "d", "s">>,
    <<"v", "a", "f", "_", "n", "u", "m", "e", "r", "i", "c">>,
    <<"t", "e", "s", "t", "_", "r", "e", "s", "u", "l", "t", "_", "n", "u", "m", "e", "r", "i", "c">>,
    <<"p", "a", "s", "s", "a", "g", "e", "_", "n", "u", "m", "b", "e", "r">>,
    <<"m", "a", "g", "n", "e", "t", "i", "c", "_", "f", "i", "e", "l", "d", "_", "s", "t", "r", "e", "n", "g", "t", "h">>,
    <<"r", "e", "p", "e", "t", "i", "t", "i", "o", "n", "_", "t", "i", "m", "e">>,
    <<"e", "c", "h", "o", "_", "t", "i", "m", "e">>,
    <<"i", "n", "v", "e", "r", "s", "i", "o", "n", "_", "t", "i", "m", "e">>,
    <<"f", "l", "i", "p", "_", "a", "n", "g", "l", "e">>,
    <<"p", "i", "x", "e", "l", "_", "s", "p", "a", "c", "i", "n", "g">>,
    <<"s", "l", "i", "c", "e", "_", "t", "h", "i", "c", "k", "n", "e", "s", "s">>,
    <<"m", "a", "g", "n", "i", "f", "i", "c", "a", "t", "i", "o", "n">>,
    <<"p", "a", "r", "t", "i", "c", "i", "p", "a", "n", "t", "_", "a", "g", "e", "_">>,
    <<"y", "e", "a", "r", "_", "o", "f", "_">>,
    <<"p", "a", "c", "k", "_", "y", "e", "a", "r", "s", "_">>,
    <<"y", "e", "a", "r", "s", "_">>,
    <<"c", "i", "g", "a", "r", "e", "t", "t", "e", "s", "_", "p", "e", "r", "_", "d", "a", "y">>,
    <<"a", "l", "c", "o", "h", "o", "l", "_", "d", "a", "y", "s", "_", "p", "e", "r", "_", "w", "e", "e", "k">>,
    <<"a", "l", "c", "o", "h", "o", "l", "_", "d", "r", "i", "n", "k", "s", "_", "p", "e", "r", "_", "d", "a", "y">>>>

boolean_patterns ==
  <<<<"i", "n", "d", "i", "c", "a", "t", "o", "r">>, <<"_", "f", "l", "a", "g">>,
    <<"i", "s", "_">>, <<"h", "a", "s", "_">>>>

\* A property definition of the props file: the set of its keys, and its
\* Type entry (is_none: the entry is null).  The empty dict has no keys.
PropDef(keys, is_none, type) == [keys |-> keys, is_none |-> is_none, Type |-> type]

NoPropDef == PropDef({}, FALSE, <<>>)

\* "prop_def and 'Type' in prop_def and prop_def['Type'] is not None"
HasDeclaredType(def) == def.keys # {} /\ "Type" \in def.keys /\ ~def.is_none

\* determine_graphql_type
determine_graphql_type(name, def) ==
  IF HasDeclaredType(def) THEN TypeMappingGet(Lower(def.Type))
  ELSE IF EndsWith(name, <<"_", "i", "d">>) \/ name = <<"i", "d">> THEN "String"
  ELSE LET prop_lower == Lower(name)
       IN IF \E i \in DOMAIN numeric_patterns : Contains(prop_lower, numeric_patterns[i])
            THEN "Int"
          ELSE IF \E i \in DOMAIN boolean_patterns : Contains(prop_lower, boolean_patterns[i])
            THEN "Boolean"
          ELSE "String"

\* get_property_definition: prop_definitions.get(prop_name, {}), over (name, definition) pairs
get_property_definition(name, prop_definitions) ==
  IF \E i \in DOMAIN prop_definitions : prop_definitions[i][1] = name
  THEN prop_definitions[CHOOSE i \in DOMAIN prop_definitions : prop_definitions[i][1] = name][2]
  ELSE NoPropDef

\* The property lines of generate_node_type: prop_name as written in Props,
\* with the type determine_graphql_type gives it
NodePropLines(props, prop_definitions) ==
  [i \in DOMAIN props |->
     [field_name |-> props[i],
      field_type |-> determine_graphql_type(props[i],
                       get_property_definition(props[i], prop_definitions))]]

\* generate_node_type: one type block
generate_node_type(node, map, prop_definitions) ==
  [type |-> node.name,
   props |-> NodePropLines(node.props, prop_definitions),
   rels |-> NodeRelLines(node.name, map)]

(***************************************************************************)
(* memgraph-schema-graphql.py                                              *)
(***************************************************************************)

\* extract_node_label: labels[0], or "unknown" for an empty list
Unknown == <<"u", "n", "k", "n", "o", "w", "n">>

extract_node_label(labels) == IF labels # <<>> THEN labels[1] ELSE Unknown

\* build_relationship_map over edge records with start/end label arrays
RECURSIVE MemgraphBuildFrom(_, _, _)
MemgraphBuildFrom(es, i, map) ==
  IF i > Len(es) THEN map
  ELSE IF es[i].start_node_labels = <<>> \/ es[i].end_node_labels = <<>>
    THEN MemgraphBuildFrom(es, i + 1, map)
  ELSE MemgraphBuildFrom(es, i + 1,
         AddEnd(map, es[i].type, extract_node_label(es[i].start_node_labels),
                extract_node_label(es[i].end_node_labels)))

memgraph_build_relationship_map(es) == MemgraphBuildFrom(es, 1, <<>>)

\* field_name in memgraph generate_node_type
MemgraphFieldName(target_label, node_label) ==
  IF ~EndsWith(target_label, <<"s">>) /\ target_label # node_label
  THEN IF EndsWith(target_label, <<"y">>)
         THEN DropLast(target_label, 1) \o <<"i", "e", "s">>
       ELSE IF EndsWith(target_label, <<"s">>) THEN target_label
       ELSE target_label \o <<"s">>
  ELSE target_label

\* The single pass of memgraph generate_node_type over the node's facts
RECURSIVE MemgraphPass(_, _, _, _)
MemgraphPass(node_label, rels, i, st) ==
  IF i > Len(rels) THEN st
  ELSE
    LET rel_type == rels[i][1]
        target_label == rels[i][2]
        direction == rels[i][3]
        rel_key == RelKey(rel_type, target_label, direction)
        field_name == MemgraphFieldName(target_label, node_label)
    IN IF rel_key \in st.added_relationships THEN MemgraphPass(node_label, rels, i + 1, st)
       ELSE MemgraphPass(node_label, rels, i + 1,
              [added_relationships |-> st.added_relationships \cup {rel_key},
               lines |-> Append(st.lines,
                           RelLine(field_name, target_label, rel_type, direction, i))])

\* memgraph generate_node_type: one type block
memgraph_generate_node_type(node_label, properties, relationships) ==
  [type |-> node_label,
   props |-> [i \in DOMAIN properties |-> [field_name |-> properties[i]]],
   rels |-> MemgraphPass(node_label, relationships, 1,
              [added_relationships |-> {}, lines |-> <<>>]).lines]

(***************************************************************************)
(* data-model-schema-graphql-mdf.py                                        *)
(***************************************************************************)

\* Mutant: the "ies" rule is missing.
SingularizeNoIes(name) ==
  IF EndsWith(name, <<"s", "e", "s">>) THEN DropLast(name, 2)
  ELSE IF EndsWith(name, <<"s">>) /\ ~EndsWith(name, <<"s", "s">>) THEN DropLast(name, 1)
  ELSE name

singularize(name) ==
  IF EndsWith(name, <<"i", "e", "s">>) THEN DropLast(name, 3) \o <<"y">>
  ELSE IF EndsWith(name, <<"s", "e", "s">>) THEN DropLast(name, 2)
  ELSE IF EndsWith(name, <<"s">>) /\ ~EndsWith(name, <<"s", "s">>) THEN DropLast(name, 1)
  ELSE name

\* used.get(base, 0)
UsedGet(used, base) == IF base \in DOMAIN used THEN used[base] ELSE 0

\* One edge of either loop of build_relationship_fields: count the base name,
\* suffix it from its second occurrence on, append the field. edge is the index
\* of the edge the field was built from (history).
AddField(st, base, target, direction, edge) ==
  LET idx == UsedGet(st.used, base)
      fname == IF idx = 0 THEN base ELSE base \o <<"_">> \o Str(idx + 1)
  IN [used |-> [b \in DOMAIN st.used \cup {base} |->
                  IF b = base THEN idx + 1 ELSE st.used[b]],
      rels |-> Append(st.rels,
                 [field_name |-> fname, target |-> target, direction |-> direction,
                  edge |-> edge])]

\* OUT edges: node is source
RECURSIVE MdfOutLoop(_, _, _, _)
MdfOutLoop(es, handle, i, st) ==
  IF i > Len(es) THEN st
  ELSE IF es[i].src = handle
    THEN MdfOutLoop(es, handle, i + 1,
           AddField(st, Lower(singularize(es[i].dst)) \o <<"_">> \o Lower(es[i].label),
                    es[i].dst, DirOut, i))
  ELSE MdfOutLoop(es, handle, i + 1, st)

\* IN edges: node is destination
RECURSIVE MdfInLoop(_, _, _, _)
MdfInLoop(es, handle, i, st) ==
  IF i > Len(es) THEN st
  ELSE IF es[i].dst = handle
    THEN MdfInLoop(es, handle, i + 1,
           AddField(st, Lower(singularize(handle)) \o <<"_">> \o Lower(es[i].label),
                    es[i].src, DirIn, i))
  ELSE MdfInLoop(es, handle, i + 1, st)

\* The sort key (0 if r[2] == "OUT" else 1, r[0]), compared as Python compares tuples
DirRank(direction) == IF direction = DirOut THEN 0 ELSE 1

\* Mutant: the key is the field name alone.
SortKeyLessNameOnly(a, b) == StrLess(a.field_name, b.field_name)

SortKeyLess(a, b) ==
  \/ DirRank(a.direction) < DirRank(b.direction)
  \/ /\ DirRank(a.direction) = DirRank(b.direction)
     /\ StrLess(a.field_name, b.field_name)

\* list.sort is stable: x goes after every element whose key is not greater
RECURSIVE InsertSorted(_, _)
InsertSorted(sorted, x) ==
  IF sorted = <<>> THEN <<x>>
  ELSE IF SortKeyLess(x, sorted[1]) THEN <<x>> \o sorted
  ELSE <<sorted[1]>> \o InsertSorted(Tail(sorted), x)

RECURSIVE SortRels(_, _, _)
SortRels(rels, i, sorted) ==
  IF i > Len(rels) THEN sorted
  ELSE SortRels(rels, i + 1, InsertSorted(sorted, rels[i]))

build_relationship_fields(es, handle) ==
  LET st0 == [used |-> <<>>, rels |-> <<>>]
      st1 == MdfOutLoop(es, handle, 1, st0)
      st2 == MdfInLoop(es, handle, 1, st1)
  IN SortRels(st2.rels, 1, <<>>)

\* _relationship_type_name: the last "_" segment of the field name, matched
\* against the lowercased edge handles in edge order
RECURSIVE ScanEdges(_, _, _)
ScanEdges(es, i, guess) ==
  IF i > Len(es) THEN Upper(guess)
  ELSE IF Lower(es[i].label) = guess THEN Upper(es[i].label)
  ELSE ScanEdges(es, i + 1, guess)

relationship_type_name(es, field_name) == ScanEdges(es, 1, LastSegment(field_name))

\* "".join(ch if ch.isalnum() or ch == '_' else '_' for ch in pname)
SafeName(pname) ==
  [i \in DOMAIN pname |-> IF IsAlnum(pname[i]) \/ pname[i] = "_" THEN pname[i] ELSE "_"]

\* sorted(...) of a set of strings
RECURSIVE SortStrings(_)
SortStrings(S) ==
  IF S = {} THEN <<>>
  ELSE LET least == CHOOSE x \in S : \A y \in S \ {x} : StrLess(x, y)
       IN <<least>> \o SortStrings(S \ {least})

\* generate_type_sdl: one type block; pname is the property handle a line was
\* written for (history)
generate_type_sdl(es, node) ==
  LET pnames == SortStrings(Range(node.props))
      fields == build_relationship_fields(es, node.name)
  IN [type |-> node.name,
      props |-> [i \in DOMAIN pnames |->
                   [field_name |-> SafeName(pnames[i]), pname |-> pnames[i]]],
      rels |-> [i \in DOMAIN fields |->
                  RelLine(fields[i].field_name, fields[i].target,
                          relationship_type_name(es, fields[i].field_name),
                          fields[i].direction, fields[i].edge)]]

\* Mutant: the nodes are taken in model order.
SortedNodesUnsorted(ns) == [i \in DOMAIN ns |-> i]

\* sorted(model.nodes.values(), key=lambda n: n.handle), as indices into ns
\* (the handles of a model are distinct)
RECURSIVE SortedFrom(_, _)
SortedFrom(ns, left) ==
  IF left = {} THEN <<>>
  ELSE LET least == CHOOSE i \in left :
                      \A j \in left \ {i} : StrLess(ns[i].name, ns[j].name)
       IN <<least>> \o SortedFrom(ns, left \ {least})

SortedNodes(ns) == SortedFrom(ns, DOMAIN ns)

(***************************************************************************)
(* Inputs                                                                  *)
(***************************************************************************)

MaxNodes == 2

MaxEdges == 2

MaxWordLen == 3

line == <<"l", "i", "n", "e">>

lines == <<"l", "i", "n", "e", "s">>

cell_line == <<"c", "e", "l", "l", "_", "l", "i", "n", "e">>

study == <<"s", "t", "u", "d", "y">>

x_ray == <<"x", "-", "r", "a", "y">>

of == <<"o", "f">>

of_cell == <<"o", "f", "_", "c", "e", "l", "l">>

of_2 == <<"o", "f", "_", "2">>

study_id == <<"s", "t", "u", "d", "y", "_", "i", "d">>

age_dx == <<"a", "g", "e", "-", "d", "x">>

\* The node definitions a model may declare: a name and its Props
NodeDefs ==
  { [name |-> cell_line, props |-> <<study_id, age_dx>>],
    [name |-> line, props |-> <<>>],
    [name |-> study, props |-> <<study_id>>] }

Edge(label, src, dst) == [label |-> label, src |-> src, dst |-> dst]

\* The relationship ends a model may declare
EdgeDefs ==
  { Edge(l, cell_line, d) : l \in {of, of_cell, of_2}, d \in {line, cell_line} }
  \cup { Edge(of, cell_line, study), Edge(of, cell_line, lines),
         Edge(of, study, cell_line), Edge(of, line, study), Edge(of, study, x_ray) }

\* PropDefinitions of the props file: study_id is declared an Integer,
\* age-dx has a definition without a Type
PropDefinitions ==
  <<<<study_id, PropDef({"Type", "Desc"}, FALSE, <<"I", "n", "t", "e", "g", "e", "r">>)>>,
    <<age_dx, PropDef({"Desc"}, FALSE, <<>>)>>>>

BoundedSeq(S, n) == UNION { [1..k -> S] : k \in 0..n }

Distinct(s) == \A i, j \in DOMAIN s : i # j => s[i] # s[j]

\* A dict of nodes: the names are distinct
NodeLists == { ns \in BoundedSeq(NodeDefs, MaxNodes) : Distinct(ns) }

\* The Ends of a Relationships dict, in document order: each relationship name is
\* one key, so its ends are consecutive
Grouped(es) ==
  \A i, j, k \in DOMAIN es : (i < j /\ j < k /\ es[i].label = es[k].label)
                               => es[j].label = es[i].label

YamlEdgeLists == { es \in BoundedSeq(EdgeDefs, MaxEdges) : Grouped(es) }

\* The Relationships dict with those Ends: one definition per relationship name
RECURSIVE GroupEnds(_)
GroupEnds(es) ==
  IF es = <<>> THEN <<>>
  ELSE LET e == Head(es)
           end == [Src |-> e.src, Dst |-> e.dst]
           rest == GroupEnds(Tail(es))
       IN IF rest # <<>> /\ Head(rest).label = e.label
          THEN <<[Head(rest) EXCEPT !.Ends = <<end>> \o @]>> \o Tail(rest)
          ELSE <<RelDef(e.label, FALSE, {"Ends"}, FALSE, <<end>>)>> \o rest

\* Definitions without endpoints: null, an empty dict, a dict without Ends,
\* Ends that is null, Ends that is an empty list
EndlessDefs ==
  { RelDef(of_2, TRUE, {}, FALSE, <<>>),
    RelDef(of_2, FALSE, {}, FALSE, <<>>),
    RelDef(of_2, FALSE, {"Mul"}, FALSE, <<>>),
    RelDef(of_2, FALSE, {"Mul", "Ends"}, TRUE, <<>>),
    RelDef(of_2, FALSE, {"Mul", "Ends"}, FALSE, <<>>) }

\* A definition without endpoints alone, or before or after a definition of "of"
EndlessDocs ==
  { <<d>> : d \in EndlessDefs }
  \cup UNION { { <<d>> \o GroupEnds(<<e>>), GroupEnds(<<e>>) \o <<d>> } :
                d \in EndlessDefs, e \in { x \in EdgeDefs : x.label = of } }

YamlRelationships == { GroupEnds(es) : es \in YamlEdgeLists } \cup EndlessDocs

\* model.edges is a dict: one Edge per key
MdfEdgeLists == { es \in BoundedSeq(EdgeDefs, MaxEdges) : Distinct(es) }

\* The memgraph schema JSON: nodes and edges carry label arrays
MemgraphNode(n) == [labels |-> <<n.name>>, properties |-> n.props]

MemgraphEdge(e) ==
  [type |-> e.label, start_node_labels |-> <<e.src>>, end_node_labels |-> <<e.dst>>]

MemgraphNodeLists ==
  BoundedSeq({ MemgraphNode(n) : n \in NodeDefs }
             \cup { [labels |-> <<>>, properties |-> <<study_id>>] }, MaxNodes)

MemgraphEdgeLists ==
  BoundedSeq({ MemgraphEdge(e) : e \in EdgeDefs }
             \cup { [type |-> of, start_node_labels |-> <<>>,
                     end_node_labels |-> <<line>>],
                    [type |-> of, start_node_labels |-> <<cell_line>>,
                     end_node_labels |-> <<>>] }, MaxEdges)

\* Exit status of a run that has not ended
Running == -1

\* Command lines: an argument names a well-formed file ("ok"), no file
\* ("missing"), a file that does not parse ("invalid"), a file whose document
\* is null ("null": an empty YAML file, the JSON text null), or is the option
\* --debug
MaxArgs == 3

ArgLists == BoundedSeq({"ok", "missing", "invalid", "null", "--debug"}, MaxArgs)

\* Property names: up to MaxFragments fragments, joined
MaxFragments == 3

Fragments ==
  { <<"i", "d">>, <<"_", "i", "d">>, <<"i", "s", "_">>, <<"h", "a", "s", "_">>,
    <<"x">>, <<"D", "x">>, <<"a", "g", "e", "_", "a", "t", "_">>, <<"_", "c", "o", "u", "n", "t">>,
    <<"i", "n", "d", "i", "c", "a", "t", "o", "r">>, <<"_", "f", "l", "a", "g">> }

RECURSIVE Joined(_)
Joined(n) ==
  IF n = 0 THEN { <<>> }
  ELSE Joined(n - 1) \cup { w \o f : w \in Joined(n - 1), f \in Fragments }

PropNames == Joined(MaxFragments) \ { <<>> }

\* Definitions a property can have: none, one without a Type, one whose Type
\* is null, and declared types in and out of the mapping
PropDefs ==
  { NoPropDef,
    PropDef({"Desc"}, FALSE, <<>>),
    PropDef({"Type"}, TRUE, <<>>),
    PropDef({"Type"}, FALSE, <<"I", "n", "t", "e", "g", "e", "r">>),
    PropDef({"Type", "Desc"}, FALSE, <<"n", "u", "m", "b", "e", "r">>),
    PropDef({"Type"}, FALSE, <<"b", "o", "o", "l", "e", "a", "n">>),
    PropDef({"Type"}, FALSE, <<"l", "i", "s", "t">>) }

\* The words of the pluralisation round trip
WordChars == {"a", "e", "i", "s", "y"}

Words == BoundedSeq(WordChars, MaxWordLen)

(***************************************************************************)
(* The programs                                                            *)
(***************************************************************************)

Idle == /\ word = <<>>
        /\ plural = <<>>
        /\ singular = <<>>

\* No call of determine_graphql_type is under observation
NotTyping == /\ prop_name = <<>>
             /\ prop_def = NoPropDef
             /\ field_type = ""

\* No command line: the functions are called directly
NoCommand == /\ argv = <<>>
             /\ stdout = <<>>
             /\ stderr = <<>>
             /\ exit_code = Running

\* A run: a script is started on a command line.  nodes and edges are what the
\* files hold when every argument names a well-formed file.
Init ==
  /\ \/ /\ script = "yaml" /\ argv = <<"ok", "ok">>
        /\ nodes \in NodeLists /\ edges \in YamlRelationships
     \/ /\ script = "mdf" /\ argv = <<"ok", "ok">>
        /\ nodes \in NodeLists /\ edges \in MdfEdgeLists
     \/ /\ script = "memgraph" /\ argv = <<"ok">>
        /\ nodes \in MemgraphNodeLists /\ edges \in MemgraphEdgeLists
     \/ /\ script \in {"yaml", "mdf", "memgraph"} /\ argv \in ArgLists
        /\ nodes = <<>> /\ edges = <<>>
  /\ pc = "main"
  /\ stdout = <<>>
  /\ stderr = <<>>
  /\ exit_code = Running
  /\ relationship_map = <<>>
  /\ order = <<>>
  /\ output_lines = <<>>
  /\ Idle
  /\ NotTyping

\* open() fails on a path that names no file; the option --debug, which only
\* the mdf script knows, is such a path to the other two
Unreadable(arg) == arg \in {"missing", "--debug"}

\* sys.exit(status) / return status from main
Exit(status) == exit_code' = status /\ pc' = "exit"

\* main of data-model-schema-graphql.py up to the call of process_ccdi_model:
\* the argument count, then load_yaml_file on both files
YamlMain ==
  /\ script = "yaml" /\ pc = "main"
  /\ IF Len(argv) # 2
       THEN /\ stdout' = stdout \o <<"Usage", "Example">>
            /\ Exit(1)
            /\ UNCHANGED stderr
     ELSE IF \E i \in DOMAIN argv : Unreadable(argv[i]) \/ argv[i] = "invalid"
       THEN /\ stderr' = Append(stderr, "Error loading")
            /\ Exit(1)
            /\ UNCHANGED stdout
     ELSE /\ pc' = "start"
          /\ UNCHANGED <<stdout, stderr, exit_code>>
  /\ UNCHANGED <<argv, typing, script, nodes, edges, relationship_map, order,
                 output_lines, word, plural, singular>>

\* main of data-model-schema-graphql.py after process_ccdi_model: print the
\* schema, or report the exception
YamlMainEnd ==
  /\ script = "yaml" /\ pc \in {"done", "TypeError", "AttributeError"}
  /\ IF pc = "done"
       THEN /\ stdout' = Append(stdout, "schema")
            /\ pc' = "exit"
            /\ exit_code' = 0
            /\ UNCHANGED stderr
     ELSE /\ stderr' = Append(stderr, "Error")
          /\ Exit(1)
          /\ UNCHANGED stdout
  /\ UNCHANGED <<argv, typing, script, nodes, edges, relationship_map, order,
                 output_lines, word, plural, singular>>

\* parse_args: the positional arguments of the mdf script
YamlFiles(args) == SelectSeq(args, LAMBDA a : a # "--debug")

\* main of data-model-schema-graphql-mdf.py up to generate_schema: parse_args
\* (argparse ends the process with status 2 when no file is named), then
\* load_model, which raises unless every file is a well-formed MDF file
MdfMain ==
  /\ script = "mdf" /\ pc = "main"
  /\ LET yaml_files == YamlFiles(argv)
         debug == \E i \in DOMAIN argv : argv[i] = "--debug"
     IN IF yaml_files = <<>>
          THEN /\ stderr' = stderr \o <<"usage", "error">>
               /\ Exit(2)
        ELSE IF \E i \in DOMAIN yaml_files : yaml_files[i] # "ok"
          THEN /\ stderr' = stderr \o (IF debug THEN <<"[DEBUG]", "Traceback">> ELSE <<>>)
                                  \o <<"Error loading MDF model">>
               /\ Exit(1)
        ELSE /\ pc' = "start"
             /\ UNCHANGED <<stderr, exit_code>>
  /\ UNCHANGED <<argv, stdout, typing, script, nodes, edges, relationship_map, order,
                 output_lines, word, plural, singular>>

\* main of data-model-schema-graphql-mdf.py after generate_schema: write the
\* schema and return 0
MdfMainEnd ==
  /\ script = "mdf" /\ pc = "done"
  /\ stdout' = Append(stdout, "schema")
  /\ pc' = "exit"
  /\ exit_code' = 0
  /\ UNCHANGED <<argv, stderr, typing, script, nodes, edges, relationship_map, order,
                 output_lines, word, plural, singular>>

\* main of memgraph-schema-graphql.py up to the call of process_schema_json:
\* the argument count, then open and json.load
MemgraphMain ==
  /\ script = "memgraph" /\ pc = "main"
  /\ IF Len(argv) # 1
       THEN /\ stdout' = Append(stdout, "Usage")
            /\ Exit(1)
     ELSE IF Unreadable(argv[1])
       THEN /\ stdout' = Append(stdout, "Error: File not found")
            /\ Exit(1)
     ELSE IF argv[1] = "invalid"
       THEN /\ stdout' = Append(stdout, "Error: Invalid JSON")
            /\ Exit(1)
     ELSE /\ pc' = "start"
          /\ UNCHANGED <<stdout, exit_code>>
  /\ UNCHANGED <<argv, stderr, typing, script, nodes, edges, relationship_map, order,
                 output_lines, word, plural, singular>>

\* main of memgraph-schema-graphql.py after process_schema_json: print the
\* schema, or report the exception
MemgraphMainEnd ==
  /\ script = "memgraph" /\ pc \in {"done", "AttributeError"}
  /\ IF pc = "done"
       THEN /\ stdout' = Append(stdout, "schema")
            /\ pc' = "exit"
            /\ exit_code' = 0
     ELSE /\ stdout' = Append(stdout, "Error")
          /\ Exit(1)
  /\ UNCHANGED <<argv, stderr, typing, script, nodes, edges, relationship_map, order,
                 output_lines, word, plural, singular>>

\* process_ccdi_model up to its loop: .get on a document that is None (an empty
\* YAML file) raises AttributeError; then build the relationship map
ProcessCcdiModelStart ==
  /\ script = "yaml" /\ pc = "start"
  /\ LET built == build_relationship_map(edges)
     IN IF \E i \in DOMAIN argv : argv[i] = "null"
        THEN pc' = "AttributeError" /\ UNCHANGED <<relationship_map, order>>
        ELSE IF built.raised
        THEN pc' = "TypeError" /\ UNCHANGED <<relationship_map, order>>
        ELSE /\ relationship_map' = built.map
             /\ order' = nodes
             /\ pc' = "loop"
  /\ UNCHANGED <<cli, typing, script, nodes, edges, output_lines, word, plural, singular>>

\* One iteration of "for node_name, node_def in nodes.items()"
ProcessCcdiModelNode ==
  /\ script = "yaml" /\ pc = "loop" /\ order # <<>>
  /\ output_lines' = Append(output_lines, generate_node_type(Head(order), relationship_map,
                                                     PropDefinitions))
  /\ order' = Tail(order)
  /\ UNCHANGED <<cli, typing, script, nodes, edges, pc, relationship_map, word, plural, singular>>

ProcessCcdiModelReturn ==
  /\ script = "yaml" /\ pc = "loop" /\ order = <<>>
  /\ pc' = "done"
  /\ UNCHANGED <<cli, typing, script, nodes, edges, relationship_map, order, output_lines,
                 word, plural, singular>>

\* generate_schema up to its loop: sort the nodes by handle
GenerateSchemaStart ==
  /\ script = "mdf" /\ pc = "start"
  /\ order' = LET ix == SortedNodes(nodes) IN [i \in DOMAIN ix |-> nodes[ix[i]]]
  /\ pc' = "loop"
  /\ UNCHANGED <<cli, typing, script, nodes, edges, relationship_map, output_lines,
                 word, plural, singular>>

\* One iteration of "for node in sorted(...)"
GenerateSchemaNode ==
  /\ script = "mdf" /\ pc = "loop" /\ order # <<>>
  /\ output_lines' = Append(output_lines, generate_type_sdl(edges, Head(order)))
  /\ order' = Tail(order)
  /\ UNCHANGED <<cli, typing, script, nodes, edges, pc, relationship_map, word, plural, singular>>

GenerateSchemaReturn ==
  /\ script = "mdf" /\ pc = "loop" /\ order = <<>>
  /\ pc' = "done"
  /\ UNCHANGED <<cli, typing, script, nodes, edges, relationship_map, order, output_lines,
                 word, plural, singular>>

\* process_schema_json up to its loop: .get on a document that is null raises
\* AttributeError; then build the relationship map
ProcessSchemaJsonStart ==
  /\ script = "memgraph" /\ pc = "start"
  /\ IF argv[1] = "null"
     THEN pc' = "AttributeError" /\ UNCHANGED <<relationship_map, order>>
     ELSE /\ relationship_map' = memgraph_build_relationship_map(edges)
          /\ order' = nodes
          /\ pc' = "loop"
  /\ UNCHANGED <<cli, typing, script, nodes, edges, output_lines, word, plural, singular>>

\* One iteration of "for node in nodes": a node without labels is skipped
ProcessSchemaJsonNode ==
  /\ script = "memgraph" /\ pc = "loop" /\ order # <<>>
  /\ output_lines' =
       IF Head(order).labels = <<>> THEN output_lines
       ELSE LET node_label == extract_node_label(Head(order).labels)
            IN Append(output_lines,
                      memgraph_generate_node_type(node_label, Head(order).properties,
                                                  MapGet(relationship_map, node_label)))
  /\ order' = Tail(order)
  /\ UNCHANGED <<cli, typing, script, nodes, edges, pc, relationship_map, word, plural, singular>>

ProcessSchemaJsonReturn ==
  /\ script = "memgraph" /\ pc = "loop" /\ order = <<>>
  /\ pc' = "done"
  /\ UNCHANGED <<cli, typing, script, nodes, edges, relationship_map, order, output_lines,
                 word, plural, singular>>

Next ==
  \/ YamlMain
  \/ YamlMainEnd
  \/ MdfMain
  \/ MdfMainEnd
  \/ MemgraphMain
  \/ MemgraphMainEnd
  \/ ProcessCcdiModelStart
  \/ ProcessCcdiModelNode
  \/ ProcessCcdiModelReturn
  \/ GenerateSchemaStart
  \/ GenerateSchemaNode
  \/ GenerateSchemaReturn
  \/ ProcessSchemaJsonStart
  \/ ProcessSchemaJsonNode
  \/ ProcessSchemaJsonReturn

Spec == Init /\ [][Next]_vars

(***************************************************************************)
(* The pluralisation round trip: a word is pluralised as a relationship    *)
(* target is, and the result is singularised.                              *)
(***************************************************************************)

RoundTripInit ==
  /\ script = "none"
  /\ nodes = <<>>
  /\ edges = <<>>
  /\ relationship_map = <<>>
  /\ order = <<>>
  /\ output_lines = <<>>
  /\ pc = "word"
  /\ word \in Words
  /\ plural = <<>>
  /\ singular = <<>>
  /\ NotTyping
  /\ NoCommand

PluralizeWord ==
  /\ pc = "word"
  /\ plural' = Pluralize(word)
  /\ pc' = "plural"
  /\ UNCHANGED <<cli, typing, script, nodes, edges, relationship_map, order, output_lines,
                 word, singular>>

SingularizeWord ==
  /\ pc = "plural"
  /\ singular' = singularize(plural)
  /\ pc' = "singular"
  /\ UNCHANGED <<cli, typing, script, nodes, edges, relationship_map, order, output_lines,
                 word, plural>>

RoundTripNext == PluralizeWord \/ SingularizeWord

RoundTripSpec == RoundTripInit /\ [][RoundTripNext]_vars

(***************************************************************************)
(* Type inference: determine_graphql_type is called on a property name and *)
(* the definition the props file has for it.                               *)
(***************************************************************************)

TypeInit ==
  /\ script = "none"
  /\ nodes = <<>>
  /\ edges = <<>>
  /\ relationship_map = <<>>
  /\ order = <<>>
  /\ output_lines = <<>>
  /\ pc = "prop"
  /\ Idle
  /\ NoCommand
  /\ prop_name \in PropNames
  /\ prop_def \in PropDefs
  /\ field_type = ""

DetermineGraphqlType ==
  /\ pc = "prop"
  /\ field_type' = determine_graphql_type(prop_name, prop_def)
  /\ pc' = "typed"
  /\ UNCHANGED <<cli, script, nodes, edges, relationship_map, order, output_lines,
                 word, plural, singular, prop_name, prop_def>>

TypeNext == DetermineGraphqlType

TypeSpec == TypeInit /\ [][TypeNext]_vars

(***************************************************************************)
(* Properties                                                              *)
(***************************************************************************)

Blocks == Range(output_lines)

OkChar(ch) == IsAlnum(ch) \/ ch = "_"

\* The pluralisation rule as the specification words it: a word ending in s is
\* unchanged, a trailing y becomes ies, otherwise s is appended.
PluralRule(w) ==
  IF w # <<>> /\ w[Len(w)] = "s" THEN w
  ELSE IF w # <<>> /\ w[Len(w)] = "y" THEN SubSeq(w, 1, Len(w) - 1) \o <<"i", "e", "s">>
  ELSE w \o <<"s">>

\* The candidate name of a fact of node N with target T: T itself for a
\* self-relationship, otherwise T pluralised.
CandidateName(T, N) == IF T = N THEN T ELSE PluralRule(T)

\* The facts of the node a block was written for
FactsOf(b) == MapGet(relationship_map, b.type)

\* C1: in the drop-on-collision generator the relationship field names of a type
\* block are pairwise distinct.
C1_DropFieldNamesDistinct ==
  script = "yaml" =>
    \A b \in Blocks : \A i, j \in DOMAIN b.rels :
      i # j => b.rels[i].field_name # b.rels[j].field_name

\* C2: in the suffix-counter generator the field names returned for a node are
\* pairwise distinct.
C2_SuffixFieldNamesDistinct ==
  script = "mdf" =>
    \A b \in Blocks : \A i, j \in DOMAIN b.rels :
      i < j => b.rels[i].field_name # b.rels[j].field_name

\* C3: in the drop-on-collision generator, when an OUT fact and an IN fact of a
\* node derive the same candidate name, a field of that name is emitted with
\* direction OUT, the OUT fact's label and target, and the IN fact emits nothing.
C3_OutWinsOverIn ==
  script = "yaml" =>
    \A b \in Blocks : \A o, n \in DOMAIN FactsOf(b) :
      LET facts == FactsOf(b)
      IN ( /\ facts[o][3] = DirOut
           /\ facts[n][3] = DirIn
           /\ CandidateName(facts[o][2], b.type) = CandidateName(facts[n][2], b.type) )
         => /\ \E k \in DOMAIN b.rels :
                 /\ b.rels[k].field_name = CandidateName(facts[o][2], b.type)
                 /\ b.rels[k].direction = DirOut
                 /\ b.rels[k].rel_type = facts[o][1]
                 /\ b.rels[k].target = facts[o][2]
            /\ \A k \in DOMAIN b.rels : b.rels[k].fact # n \/ b.rels[k].direction # DirIn

\* C4 as claimed: in the drop-on-collision generator the name of a field written
\* for an IN fact is the current node's own identifier, pluralised.
C4_InNameFromCurrentNode ==
  script = "yaml" =>
    \A b \in Blocks : \A k \in DOMAIN b.rels :
      b.rels[k].direction = DirIn => b.rels[k].field_name = PluralRule(b.type)

\* C4 as amended: in the drop-on-collision generator the name of a field written
\* for an IN fact (label, source S) of node N is derived from the source type S,
\* the fact's target: S unchanged when S ends in s or S = N, otherwise pluralised.
C4_InNameFromSource ==
  script = "yaml" =>
    \A b \in Blocks : \A k \in DOMAIN b.rels :
      b.rels[k].direction = DirIn =>
        LET f == FactsOf(b)[b.rels[k].fact]
        IN /\ f[3] = DirIn
           /\ b.rels[k].target = f[2]
           /\ b.rels[k].field_name = CandidateName(f[2], b.type)

\* C4 witness: an IN field whose source is another type and whose name differs from
\* the current node's plural.
C4_Witness ==
  /\ script = "yaml"
  /\ \E b \in Blocks : \E k \in DOMAIN b.rels :
       /\ b.rels[k].direction = DirIn
       /\ b.rels[k].target # b.type
       /\ b.rels[k].field_name = PluralRule(b.rels[k].target)
       /\ b.rels[k].field_name # PluralRule(b.type)

\* C5: in the metadata-driven generator the relationship type of every field's
\* traversal annotation is the uppercased handle of the edge the field was built from.
C5_TypeIsUppercasedLabel ==
  script = "mdf" =>
    \A b \in Blocks : \A k \in DOMAIN b.rels :
      b.rels[k].rel_type = Upper(edges[b.rels[k].fact].label)

\* C6 as claimed: for every word w not ending in s, singularize(pluralize(w)) = w.
C6_RoundTripAllWords ==
  (pc = "singular" /\ ~EndsWith(word, <<"s">>)) => singular = word

\* C6 as amended: for every word w that ends neither in s nor in ie nor in se,
\* singularize(pluralize(w)) = w.
C6_RoundTrip ==
  ( /\ pc = "singular"
    /\ ~EndsWith(word, <<"s">>)
    /\ ~EndsWith(word, <<"i", "e">>)
    /\ ~EndsWith(word, <<"s", "e">>) )
  => singular = word

\* C6 witness: a word ending in y has gone through ies and come back.
C6_Witness ==
  /\ pc = "singular"
  /\ Len(word) >= 2
  /\ EndsWith(word, <<"y">>)
  /\ EndsWith(plural, <<"i", "e", "s">>)
  /\ singular = word

\* C7: in the plain generators the name of a field written for a fact of node N with
\* target T is T when T ends in s or T = N, otherwise T with a trailing y replaced by
\* ies, or T + s.
C7_CandidateNameRule ==
  script \in {"yaml", "memgraph"} =>
    \A b \in Blocks : \A k \in DOMAIN b.rels :
      LET T == FactsOf(b)[b.rels[k].fact][2]
          N == b.type
      IN b.rels[k].field_name =
           IF EndsWith(T, <<"s">>) \/ T = N THEN T
           ELSE IF EndsWith(T, <<"y">>) THEN DropLast(T, 1) \o <<"i", "e", "s">>
           ELSE T \o <<"s">>

\* C7 witness: a block with an unpluralised self-relationship field and a field
\* whose target's trailing y became ies.
C7_Witness ==
  /\ script \in {"yaml", "memgraph"}
  /\ \E b \in Blocks : \E k, m \in DOMAIN b.rels :
       /\ b.rels[k].target = b.type
       /\ b.rels[k].field_name = b.type
       /\ EndsWith(b.rels[m].target, <<"y">>)
       /\ b.rels[m].field_name = DropLast(b.rels[m].target, 1) \o <<"i", "e", "s">>

\* C8: within a type block every OUT field precedes every IN field; in the
\* drop-on-collision generator each group is in the order of the facts, and in the
\* suffix-counter generator the fields ascend by (direction rank, field name).
C8_FieldOrder ==
  \A b \in Blocks : \A i, j \in DOMAIN b.rels :
    i < j =>
      /\ script \in {"yaml", "mdf"} =>
           ~(b.rels[i].direction = DirIn /\ b.rels[j].direction = DirOut)
      /\ (script = "yaml" /\ b.rels[i].direction = b.rels[j].direction) =>
           b.rels[i].fact < b.rels[j].fact
      /\ (script = "mdf" /\ b.rels[i].direction = b.rels[j].direction) =>
           ~StrLess(b.rels[j].field_name, b.rels[i].field_name)

\* C8 witness: a suffix-counter block holding an IN field and two OUT fields that
\* stand in the opposite order of their edges.
C8_Witness ==
  /\ script = "mdf"
  /\ \E b \in Blocks : \E i, j, k \in DOMAIN b.rels :
       /\ i < j
       /\ b.rels[i].direction = DirOut
       /\ b.rels[j].direction = DirOut
       /\ b.rels[i].fact > b.rels[j].fact
       /\ b.rels[k].direction = DirIn

\* The type identifiers of the emitted blocks, in document order
BlockTypes == [i \in DOMAIN output_lines |-> output_lines[i].type]

Ascending(types) == \A i, j \in DOMAIN types : i < j => StrLess(types[i], types[j])

\* C9 as claimed: the type blocks of the returned document are in lexicographic
\* order of type identifier.
C9_BlocksSortedEverywhere == pc = "done" => Ascending(BlockTypes)

\* C9 as amended: generate_schema emits the blocks in lexicographic order of node
\* handle whatever the model's order; process_ccdi_model and process_schema_json
\* emit them in the order of the input document.
C9_BlocksSortedInMdf ==
  pc = "done" =>
    /\ script = "mdf" =>
         /\ Ascending(BlockTypes)
         /\ Range(BlockTypes) = { nodes[i].name : i \in DOMAIN nodes }
         /\ Len(BlockTypes) = Len(nodes)
    /\ script = "yaml" => BlockTypes = [i \in DOMAIN nodes |-> nodes[i].name]
    /\ script = "memgraph" =>
         LET labelled == SelectSeq(nodes, LAMBDA n : n.labels # <<>>)
         IN BlockTypes = [i \in DOMAIN labelled |-> labelled[i].labels[1]]

\* C9 witness: generate_schema has returned for a model whose two nodes were
\* declared in descending order.
C9_Witness ==
  /\ script = "mdf"
  /\ pc = "done"
  /\ Len(nodes) = 2
  /\ StrLess(nodes[2].name, nodes[1].name)
  /\ Len(output_lines) = 2

\* C10: every field name written in a type block, attribute or relationship,
\* consists of alphanumeric characters and underscores only.
C10_FieldNamesSanitized ==
  \A b \in Blocks :
    /\ \A k \in DOMAIN b.props : \A c \in Range(b.props[k].field_name) : OkChar(c)
    /\ \A k \in DOMAIN b.rels : \A c \in Range(b.rels[k].field_name) : OkChar(c)


\* s.startswith(prefix)
StartsWith(s, prefix) == Len(s) >= Len(prefix) /\ SubSeq(s, 1, Len(prefix)) = prefix

\* The reference classification of a property name, in its precedence
\* (fragments are looked for in the lower-cased name)
ReferenceType(name) ==
  LET lowered == Lower(name)
  IN IF EndsWith(name, <<"_", "i", "d">>) \/ name = <<"i", "d">> THEN "String"
     ELSE IF \E i \in DOMAIN numeric_patterns : Contains(lowered, numeric_patterns[i])
       THEN "Int"
     ELSE IF \/ Contains(lowered, <<"i", "n", "d", "i", "c", "a", "t", "o", "r">>)
             \/ Contains(lowered, <<"_", "f", "l", "a", "g">>)
             \/ StartsWith(lowered, <<"i", "s", "_">>)
             \/ StartsWith(lowered, <<"h", "a", "s", "_">>)
       THEN "Boolean"
     ELSE "String"

\* C12: with no declared Type, determine_graphql_type gives a property name
\* the type of the reference classification: String for a name that ends in
\* _id or is id, else Int for a numeric fragment, else Boolean for indicator,
\* _flag, a leading is_ or a leading has_, else String; so a name with is_ or
\* has_ only in a non-leading position, and in no other class, is String.
C12_NameInference ==
  (pc = "typed" /\ ~HasDeclaredType(prop_def)) => field_type = ReferenceType(prop_name)


\* Fact i of a block's node has an earlier fact with the identical
\* (label, target type, direction) triple
EarlierSameFact(b, i) == \E j \in 1..(i - 1) : FactsOf(b)[j] = FactsOf(b)[i]

\* A line of the block was written for fact i
Written(b, i) == \E k \in DOMAIN b.rels : b.rels[k].fact = i

\* In the drop-on-collision generator an IN fact is also skipped when its
\* field name is already taken by a line written for another fact
NameTaken(b, i) ==
  /\ script = "yaml"
  /\ FactsOf(b)[i][3] = DirIn
  /\ \E k \in DOMAIN b.rels :
       /\ b.rels[k].fact # i
       /\ b.rels[k].field_name = InFieldName(FactsOf(b)[i][2], b.type)

\* C14: in the plain generators a fact of a node is skipped as a duplicate only
\* if an earlier fact of that node has the identical (label, target type,
\* direction) triple: every other fact is written (or, for an IN fact of the
\* drop-on-collision generator, loses its field name to another line).
C14_OnlyIdenticalFactsSuppressed ==
  script \in {"yaml", "memgraph"} =>
    \A b \in Blocks : \A i \in DOMAIN FactsOf(b) :
      Written(b, i) \/ EarlierSameFact(b, i) \/ NameTaken(b, i)


\* The endpoint pairs (label, source, destination) of the Relationships dict, in
\* document order
RECURSIVE YamlPairs(_)
YamlPairs(relationships) ==
  IF relationships = <<>> THEN <<>>
  ELSE LET r == Head(relationships)
       IN [k \in DOMAIN r.Ends |-> <<r.label, r.Ends[k].Src, r.Ends[k].Dst>>]
          \o YamlPairs(Tail(relationships))

\* The endpoint pairs of the edge records whose label arrays are both non-empty
RECURSIVE MemgraphPairs(_)
MemgraphPairs(es) ==
  IF es = <<>> THEN <<>>
  ELSE LET e == Head(es)
       IN (IF e.start_node_labels = <<>> \/ e.end_node_labels = <<>> THEN <<>>
           ELSE <<<<e.type, e.start_node_labels[1], e.end_node_labels[1]>>>>)
          \o MemgraphPairs(Tail(es))

EndpointPairs == IF script = "yaml" THEN YamlPairs(edges) ELSE MemgraphPairs(edges)

\* What the pairs contribute to the fact list of node n, pair by pair
RECURSIVE ExpectedFacts(_, _)
ExpectedFacts(pairs, n) ==
  IF pairs = <<>> THEN <<>>
  ELSE LET q == Head(pairs)
       IN (IF q[2] = n THEN <<<<q[1], q[3], DirOut>>>> ELSE <<>>)
          \o (IF q[3] = n THEN <<<<q[1], q[2], DirIn>>>> ELSE <<>>)
          \o ExpectedFacts(Tail(pairs), n)

\* The entries of the relationship map with the given direction
EntriesOf(direction) ==
  UNION { { <<n, i>> : i \in { k \in DOMAIN relationship_map[n] :
                                 relationship_map[n][k][3] = direction } } :
          n \in DOMAIN relationship_map }

\* C13: fact extraction in the plain generators raises no error, and once it
\* has run, every endpoint pair (S, D) of label L has put exactly one
\* (L, D, OUT) on the list of S and exactly one (L, S, IN) on the list of D, in
\* document order, a record with an empty label array and a definition
\* without endpoints have put nothing, and there are as many OUT entries as IN
\* entries.
C13_FactExtraction ==
  /\ pc # "TypeError"
  /\ (script \in {"yaml", "memgraph"} /\ pc \in {"loop", "done"}) =>
       /\ \A n \in DOMAIN relationship_map \cup { q[2] : q \in Range(EndpointPairs) }
                   \cup { q[3] : q \in Range(EndpointPairs) } :
            MapGet(relationship_map, n) = ExpectedFacts(EndpointPairs, n)
       /\ Cardinality(EntriesOf(DirOut)) = Cardinality(EntriesOf(DirIn))

\* C13 apart from the raised error
C13_FactsWhenNoError == pc = "TypeError" \/ C13_FactExtraction


\* The command line does not have the arguments the script asks for
WrongArguments ==
  \/ script = "yaml" /\ Len(argv) # 2
  \/ script = "memgraph" /\ Len(argv) # 1
  \/ script = "mdf" /\ YamlFiles(argv) = <<>>

\* An input file is unreadable or invalid
LoadFailure ==
  \E i \in DOMAIN argv : argv[i] # "ok" /\ (script = "mdf" => argv[i] # "--debug")

\* The run is one in which load or generation fails
Failure ==
  \/ WrongArguments
  \/ LoadFailure
  \/ script = "yaml" /\ build_relationship_map(edges).raised

\* C11: a run that has ended with exit code 0 and the schema on standard
\* output is one in which load and generation succeeded; a run in which load
\* or generation failed (a wrong argument count and an unreadable or invalid
\* input included) has ended with exit code 1, nothing on standard output and
\* the error message on the error stream.
C11_CliOutcome ==
  (script \in {"yaml", "mdf", "memgraph"} /\ pc = "exit") =>
    /\ (exit_code = 0 /\ stdout = <<"schema">>) => ~Failure
    /\ Failure => (exit_code = 1 /\ stdout = <<>> /\ stderr # <<>>)

====
